---- MODULE Spec2Model ----
(***************************************************************************)
(* Number platform of the Adaptive Lighting integration                    *)
(* (custom_components/adaptive_lighting/number.py): the SimpleNumber       *)
(* entity, its restore-or-default step, its setter, and async_setup_entry. *)
(*                                                                         *)
(* Representation.                                                         *)
(*   - Python None is the empty tuple; a present value x is <<x>>.         *)
(*   - A str is a tuple of one-character strings.                          *)
(*   - A float is <<"fin", n>> for the finite value n / Scale (a decimal   *)
(*     grid of resolution 1 / Scale), <<"inf", 1>>, <<"inf", -1>> or       *)
(*     <<"nan", 0>>.                                                       *)
(***************************************************************************)
EXTENDS Integers, Sequences, FiniteSets, TLC

None == <<>>
Some(x) == <<x>>
Val(o) == o[1]

\* Resolution of the float grid: a finite float is an integer count of 1/Scale.
Scale == 10

Fin(n) == <<"fin", n>>
PosInf == <<"inf", 1>>
NegInf == <<"inf", -1>>
NaN == <<"nan", 0>>
\* A Python int literal used where a float is expected (min_value=1, ...).
FloatOf(i) == Fin(i * Scale)
IsFin(x) == x[1] = "fin"

\* x <= y on floats; every comparison with nan is false.
FLe(x, y) ==
    /\ x # NaN
    /\ y # NaN
    /\ \/ x = NegInf
       \/ y = PosInf
       \/ IsFin(x) /\ IsFin(y) /\ x[2] <= y[2]

(***************************************************************************)
(* Text                                                                    *)
(***************************************************************************)
DigitChars == <<"0", "1", "2", "3", "4", "5", "6", "7", "8", "9">>
IsDigit(c) == \E i \in 1..10 : DigitChars[i] = c
DigitVal(c) == (CHOOSE i \in 1..10 : DigitChars[i] = c) - 1

UpperChars ==
    <<"A", "B", "C", "D", "E", "F", "G", "H", "I", "J", "K", "L", "M",
      "N", "O", "P", "Q", "R", "S", "T", "U", "V", "W", "X", "Y", "Z">>
LowerChars ==
    <<"a", "b", "c", "d", "e", "f", "g", "h", "i", "j", "k", "l", "m",
      "n", "o", "p", "q", "r", "s", "t", "u", "v", "w", "x", "y", "z">>
IsLetter(c) == \E i \in 1..Len(UpperChars) : c = UpperChars[i] \/ c = LowerChars[i]
\* str.lower() on one character.
LowerChar(c) ==
    IF \E i \in 1..Len(UpperChars) : UpperChars[i] = c
    THEN LowerChars[CHOOSE i \in 1..Len(UpperChars) : UpperChars[i] = c]
    ELSE c
Lower(s) == [i \in 1..Len(s) |-> LowerChar(s[i])]

IsSpace(c) == c = " "

\* str.strip(): leading and trailing whitespace removed.
RECURSIVE LStrip(_)
LStrip(s) == IF s # <<>> /\ IsSpace(Head(s)) THEN LStrip(Tail(s)) ELSE s
RECURSIVE RStrip(_)
RStrip(s) ==
    IF s # <<>> /\ IsSpace(s[Len(s)]) THEN RStrip(SubSeq(s, 1, Len(s) - 1)) ELSE s
Strip(s) == RStrip(LStrip(s))

\* Length of the longest prefix of s made of decimal digits.
RECURSIVE LeadDigits(_)
LeadDigits(s) ==
    IF s # <<>> /\ IsDigit(Head(s)) THEN 1 + LeadDigits(Tail(s)) ELSE 0

\* The natural number a digit string denotes (0 for the empty string).
RECURSIVE NatOf(_)
NatOf(ds) ==
    IF ds = <<>> THEN 0
    ELSE NatOf(SubSeq(ds, 1, Len(ds) - 1)) * 10 + DigitVal(ds[Len(ds)])

\* The decimal digits of a natural number.
RECURSIVE DigitsOf(_)
DigitsOf(n) ==
    IF n < 10 THEN <<DigitChars[n + 1]>>
    ELSE DigitsOf(n \div 10) \o <<DigitChars[(n % 10) + 1]>>

RECURSIVE Pow10(_)
Pow10(k) == IF k = 0 THEN 1 ELSE 10 * Pow10(k - 1)

Drop(s, k) == SubSeq(s, k + 1, Len(s))
Take(s, k) == SubSeq(s, 1, k)

StrInf == <<"i", "n", "f">>
StrInfinity == <<"i", "n", "f", "i", "n", "i", "t", "y">>
StrNan == <<"n", "a", "n">>

\* m * 10^e on the float grid (truncated to the grid when it falls between
\* two grid points, as float() rounds a decimal literal to a double).
ScaleBy(m, e) ==
    IF e >= 0 THEN m * Pow10(e) * Scale
    ELSE (m * Scale) \div Pow10(0 - e)

(***************************************************************************)
(* float(str): None stands for ValueError.  The grammar is Python's:       *)
(*   [ws] [sign] (digits [. [digits]] | . digits) [(e|E) [sign] digits]    *)
(*   [ws]   or   [ws] [sign] (inf | infinity | nan) [ws], any letter case. *)
(* Digit grouping with "_" is left out: no text of the model holds "_"     *)
(* where a number is parsed.                                               *)
(***************************************************************************)
ParseFloat(s) ==
    LET t == Strip(s)
        signed == t # <<>> /\ Head(t) \in {"+", "-"}
        neg == signed /\ Head(t) = "-"
        body == IF signed THEN Tail(t) ELSE t
        word == Lower(body)
        ni == LeadDigits(body)
        afterInt == Drop(body, ni)
        hasDot == afterInt # <<>> /\ Head(afterInt) = "."
        fracSrc == IF hasDot THEN Tail(afterInt) ELSE afterInt
        nf == IF hasDot THEN LeadDigits(fracSrc) ELSE 0
        afterFrac == Drop(fracSrc, nf)
        hasExp == afterFrac # <<>> /\ Head(afterFrac) \in {"e", "E"}
        expSrc == IF hasExp THEN Tail(afterFrac) ELSE <<>>
        expSigned == expSrc # <<>> /\ Head(expSrc) \in {"+", "-"}
        expNeg == expSigned /\ Head(expSrc) = "-"
        expDigits == IF expSigned THEN Tail(expSrc) ELSE expSrc
        ne == LeadDigits(expDigits)
        wellFormed ==
            /\ ni + nf > 0
            /\ IF hasExp THEN ne > 0 /\ ne = Len(expDigits) ELSE afterFrac = <<>>
        mant == NatOf(Take(body, ni) \o Take(fracSrc, nf))
        e10 == IF hasExp THEN NatOf(expDigits) ELSE 0
        exp == (IF expNeg THEN 0 - e10 ELSE e10) - nf
        mag == ScaleBy(mant, exp)
    IN  IF word \in {StrInf, StrInfinity} THEN Some(IF neg THEN NegInf ELSE PosInf)
        ELSE IF word = StrNan THEN Some(NaN)
        ELSE IF wellFormed THEN Some(Fin(IF neg THEN 0 - mag ELSE mag))
        ELSE None

\* str(float) for a float of the grid: "50.5", "-3.0", "inf", "-inf", "nan".
\* (The exponent form Python uses from 1e16 on is outside the model's values.)
FormatFloat(x) ==
    IF x = NaN THEN StrNan
    ELSE IF x = PosInf THEN StrInf
    ELSE IF x = NegInf THEN <<"-">> \o StrInf
    ELSE LET n == x[2]
             a == IF n < 0 THEN 0 - n ELSE n
         IN  (IF n < 0 THEN <<"-">> ELSE <<>>)
                \o DigitsOf(a \div Scale) \o <<".">> \o DigitsOf(a % Scale)


\* homeassistant.util.slugify with its "_" separator: letters lowered, every
\* run of other characters one "_", no "_" at either end; "unknown" when
\* nothing is left of a non-empty text.
RECURSIVE SlugChars(_, _)
SlugChars(s, pendingSep) ==
    IF s = <<>> THEN <<>>
    ELSE IF IsLetter(Head(s)) \/ IsDigit(Head(s))
         THEN (IF pendingSep THEN <<"_">> ELSE <<>>)
                \o <<LowerChar(Head(s))>> \o SlugChars(Tail(s), FALSE)
         ELSE SlugChars(Tail(s), TRUE)
RECURSIVE DropLeadingSep(_)
DropLeadingSep(s) ==
    IF s # <<>> /\ ~(IsLetter(Head(s)) \/ IsDigit(Head(s)))
    THEN DropLeadingSep(Tail(s)) ELSE s
StrUnknown == <<"u", "n", "k", "n", "o", "w", "n">>
StrUnavailable == <<"u", "n", "a", "v", "a", "i", "l", "a", "b", "l", "e">>
Slugify(text) ==
    IF text = <<>> THEN <<>>
    ELSE LET slug == SlugChars(DropLeadingSep(text), FALSE)
         IN  IF slug = <<>> THEN StrUnknown ELSE slug

\* str() of an optional text inside an f-string: None is rendered "None".
StrNone == <<"N", "o", "n", "e">>
PyStr(o) == IF o = None THEN StrNone ELSE Val(o)

\* Python truthiness of an optional text, and `a or b`.
Truthy(o) == o # None /\ Val(o) # <<>>
PyOr(a, b) == IF Truthy(a) THEN a ELSE b


(***************************************************************************)
(* Constants of const.py and of async_setup_entry                          *)
(***************************************************************************)
DOMAIN_NAME == "adaptive_lighting"
OVERRIDE_BRIGHTNESS_NUMBER == "override_brightness_number"
OVERRIDE_COLOR_TEMP_NUMBER == "override_color_temp_number"
\* The values of the two defaults are set in const.py; the numbers here stand
\* for them, and nothing below depends on which numbers they are.
DEFAULT_OVERRIDE_BRIGHTNESS == 100
DEFAULT_OVERRIDE_COLOR_TEMP == 4000

WhichBrightness ==
    <<"O", "v", "e", "r", "r", "i", "d", "e", " ",
      "B", "r", "i", "g", "h", "t", "n", "e", "s", "s">>
WhichColorTemp ==
    <<"O", "v", "e", "r", "r", "i", "d", "e", " ", "C", "o", "l", "o", "r", " ",
      "T", "e", "m", "p", "e", "r", "a", "t", "u", "r", "e">>

BrightnessMin == 1
BrightnessMax == 100
BrightnessStep == 1
ColorTempMin == 2000
ColorTempMax == 6500
ColorTempStep == 100

(***************************************************************************)
(* Bounds of the model                                                     *)
(***************************************************************************)
\* Calls of async_set_native_value in one run of the host.
MaxSets == 2

(***************************************************************************)
(* Inputs                                                                  *)
(***************************************************************************)
NameLr == <<"l", "r">>
NameDen == <<"d", "e", "n">>
\* What config_entry.data.get(CONF_NAME) / config_entry.options.get(CONF_NAME)
\* may return: nothing, an empty text, a text.
NameOptions == {None, Some(<<>>), Some(NameLr), Some(NameDen), Some(StrNone)}

\* Values handed to async_set_native_value: 7.0, 42.5, 3000.0 and 6500.0.  The
\* host's number service rejects a value outside the entity's range before it
\* calls the entity, so an entity is only handed values of its own range.
SetCandidates == {Fin(70), Fin(425), Fin(30000), Fin(65000)}
SetValues(ent) ==
    {v \in SetCandidates : FLe(ent.native_min_value, v) /\ FLe(v, ent.native_max_value)}

\* What async_get_last_state may return: None, or a State whose .state is
\* None or a text.
StateOf(st) == Some([state |-> st])
StoredTexts ==
    { StrUnknown, StrUnavailable,
      <<"4", "2", ".", "5">>,
      <<"3", "0", "0", "0", ".", "0">>,
      <<"0", ".", "0">>,
      <<"a", "b", "c">> }
StoredStates == {None, StateOf(None)} \cup {StateOf(Some(t)) : t \in StoredTexts}

VARIABLES
    entries,          \* the host's config entries: entry_id -> ConfigEntry
    hass_data,        \* hass.data[DOMAIN]: entry_id -> (key -> object)
    heap,             \* the SimpleNumber objects of this run, by object id
    added_pc,         \* per object: position of its async_added_to_hass
    local_last_state, \* per object: last_state of its async_added_to_hass
    setup_state,      \* per entry: outcome of async_setup_entry in this run
    add_calls,        \* the calls of async_add_entities in this run
    host,             \* what the host holds of an entity, by unique_id
    write_count,      \* per object: calls of async_write_ha_state
    set_count,        \* per object: calls of async_set_native_value
    last_set,         \* per object: argument of the latest such call
    nsets             \* calls of async_set_native_value in this run

vars ==
    <<entries, hass_data, heap, added_pc, local_last_state, setup_state,
      add_calls, host, write_count, set_count, last_set, nsets>>

\* host[u].stored  what the restore storage holds (async_get_last_state)
\* host[u].state   the state text written in this run, None before any
\* host[u].state_arg, host[u].stored_arg  the async_set_native_value
\*                 argument the state, the stored state, was written for
HostRecord(stored, state, state_arg, stored_arg) ==
    [stored |-> stored, state |-> state, state_arg |-> state_arg, stored_arg |-> stored_arg]
last_states == [u \in DOMAIN host |-> host[u].stored]
host_state == [u \in DOMAIN host |-> host[u].state]
written_by_set == [u \in DOMAIN host |-> host[u].stored_arg]

Put(f, k, v) == [y \in DOMAIN f \cup {k} |-> IF y = k THEN v ELSE f[y]]
EmptyMap == [y \in {} |-> None]

(***************************************************************************)
(* class SimpleNumber                                                      *)
(***************************************************************************)
\* config_entry.data.get(CONF_NAME) or config_entry.options.get(CONF_NAME)
ConfigName(config_entry) == PyOr(config_entry.data_name, config_entry.options_name)

\* f"{self._config_name}_{slugify(self._which)}"
MakeUniqueId(config_name, which) == PyStr(config_name) \o <<"_">> \o Slugify(which)

\* Faulty variant: the constructor starts the value at initial_value.
SimpleNumber_InitialValue(which, initial_value, min_value, max_value, step, unit, config_entry) ==
    [ _value |-> Some(initial_value),
      _which |-> which,
      _config_name |-> ConfigName(config_entry),
      _unique_id |-> MakeUniqueId(ConfigName(config_entry), which),
      _initial_value |-> initial_value,
      native_min_value |-> min_value,
      native_max_value |-> max_value,
      native_step |-> step,
      native_unit_of_measurement |-> unit,
      mode |-> "slider" ]

\* SimpleNumber.__init__ (the icon and the display name are left out: no
\* operation of the file reads them back).
SimpleNumber(which, initial_value, min_value, max_value, step, unit, config_entry) ==
    [ _value |-> None,
      _which |-> which,
      _config_name |-> ConfigName(config_entry),
      _unique_id |-> MakeUniqueId(ConfigName(config_entry), which),
      _initial_value |-> initial_value,
      native_min_value |-> min_value,
      native_max_value |-> max_value,
      native_step |-> step,
      native_unit_of_measurement |-> unit,
      mode |-> "slider" ]

unique_id(ent) == ent._unique_id
native_value(ent) == ent._value
device_info(ent) ==
    [ identifiers |-> {<<DOMAIN_NAME, ent._config_name>>},
      entry_type |-> "service" ]

\* Faulty variant: no except clause, a state that does not parse leaves no value.
RestoreValue_NoFallback(last_state, initial_value) ==
    IF /\ last_state # None
       /\ Val(last_state).state \notin {None, Some(StrUnknown), Some(StrUnavailable)}
    THEN ParseFloat(Val(Val(last_state).state))
    ELSE Some(initial_value)

\* Faulty variant: int() in place of float(), so only digit strings parse.
RestoreValue_IntParse(last_state, initial_value) ==
    IF /\ last_state # None
       /\ Val(last_state).state \notin {None, Some(StrUnknown), Some(StrUnavailable)}
    THEN LET t == Strip(Val(Val(last_state).state))
             signed == t # <<>> /\ Head(t) \in {"+", "-"}
             body == IF signed THEN Tail(t) ELSE t
             n == NatOf(body) * Scale
         IN  IF body # <<>> /\ LeadDigits(body) = Len(body)
             THEN Some(Fin(IF signed /\ Head(t) = "-" THEN 0 - n ELSE n))
             ELSE Some(initial_value)
    ELSE Some(initial_value)

\* Lines 97-103 of async_added_to_hass: the value assigned to self._value.
RestoreValue(last_state, initial_value) ==
    IF /\ last_state # None
       /\ Val(last_state).state \notin {None, Some(StrUnknown), Some(StrUnavailable)}
    THEN LET parsed == ParseFloat(Val(Val(last_state).state))
         IN  IF parsed # None THEN parsed ELSE Some(initial_value)
    ELSE Some(initial_value)

\* self._value = value
SetValue(ent, value) == [ent EXCEPT !._value = Some(value)]

\* The state text async_write_ha_state hands to the host: the entity's
\* native_value as text, "unknown" while it is None.
StateText(ent) ==
    IF native_value(ent) = None THEN StrUnknown
    ELSE FormatFloat(Val(native_value(ent)))

(***************************************************************************)
(* async_setup_entry                                                       *)
(***************************************************************************)
OverrideBrightnessNumber(config_entry) ==
    SimpleNumber(WhichBrightness, FloatOf(DEFAULT_OVERRIDE_BRIGHTNESS),
                 FloatOf(BrightnessMin), FloatOf(BrightnessMax),
                 FloatOf(BrightnessStep), "%", config_entry)

OverrideColorTempNumber(config_entry) ==
    SimpleNumber(WhichColorTemp, FloatOf(DEFAULT_OVERRIDE_COLOR_TEMP),
                 FloatOf(ColorTempMin), FloatOf(ColorTempMax),
                 FloatOf(ColorTempStep), "K", config_entry)

\* Faulty variant: the brightness object is stored under both keys.
StoreInData_SameObject(data, entry_id, brightness, color_temp) ==
    [data EXCEPT ![entry_id] =
        Put(Put(@, OVERRIDE_BRIGHTNESS_NUMBER, brightness),
            OVERRIDE_COLOR_TEMP_NUMBER, brightness)]

\* data[entry_id][OVERRIDE_BRIGHTNESS_NUMBER] = ...; data[entry_id][...] = ...
StoreInData(data, entry_id, brightness, color_temp) ==
    [data EXCEPT ![entry_id] =
        Put(Put(@, OVERRIDE_BRIGHTNESS_NUMBER, brightness),
            OVERRIDE_COLOR_TEMP_NUMBER, color_temp)]

\* Faulty variant: the two entities are handed over in the other order.
AddEntitiesCall_Swapped(data, entry_id, brightness, color_temp) ==
    [ entry_id |-> entry_id,
      entities |-> <<color_temp, brightness>>,
      update_before_add |-> TRUE,
      data_at_call |-> data[entry_id] ]

\* async_add_entities([brightness, color_temp], update_before_add=True), with
\* what hass.data[DOMAIN][entry_id] holds as the callback is entered.
AddEntitiesCall(data, entry_id, brightness, color_temp) ==
    [ entry_id |-> entry_id,
      entities |-> <<brightness, color_temp>>,
      update_before_add |-> TRUE,
      data_at_call |-> data[entry_id] ]

\* The integration's own set-up puts hass.data[DOMAIN][entry_id] in place
\* before the number platform is set up.
IntegrationSetup(c) ==
    /\ c \in DOMAIN entries
    /\ c \notin DOMAIN hass_data
    /\ setup_state[c] = "none"
    /\ hass_data' = Put(hass_data, c, EmptyMap)
    /\ UNCHANGED <<entries, heap, added_pc, local_last_state, setup_state,
                   add_calls, host, write_count, set_count, last_set, nsets>>

AsyncSetupEntry(c) ==
    /\ c \in DOMAIN entries
    /\ setup_state[c] = "none"
    /\ LET brightness == Len(heap) + 1
           color_temp == Len(heap) + 2
       IN  IF c \in DOMAIN hass_data
           THEN LET data == StoreInData(hass_data, c, brightness, color_temp)
                IN  /\ heap' = heap \o <<OverrideBrightnessNumber(entries[c]),
                                         OverrideColorTempNumber(entries[c])>>
                    /\ hass_data' = data
                    /\ add_calls' =
                         Append(add_calls, AddEntitiesCall(data, c, brightness, color_temp))
                    /\ added_pc' = added_pc \o <<"new", "new">>
                    /\ local_last_state' = local_last_state \o <<None, None>>
                    /\ write_count' = write_count \o <<0, 0>>
                    /\ set_count' = set_count \o <<0, 0>>
                    /\ last_set' = last_set \o <<None, None>>
                    /\ setup_state' = [setup_state EXCEPT ![c] = "done"]
           ELSE \* data[config_entry.entry_id] raises KeyError
                /\ setup_state' = [setup_state EXCEPT ![c] = "failed"]
                /\ UNCHANGED <<heap, hass_data, add_calls, added_pc,
                               local_last_state, write_count, set_count, last_set>>
    /\ UNCHANGED <<entries, host, nsets>>

(***************************************************************************)
(* SimpleNumber.async_added_to_hass, run by the host for every entity      *)
(* handed to async_add_entities.  It awaits async_get_last_state and       *)
(* assigns self._value when it resumes.                                    *)
(***************************************************************************)
Registered(o) == \E i \in 1..Len(add_calls) : \E j \in 1..2 : add_calls[i].entities[j] = o

\* RestoreEntity.async_get_last_state: the host's stored state of the entity.
AsyncGetLastState(ent) == last_states[unique_id(ent)]

AddedToHassAwait(o) ==
    /\ o \in 1..Len(heap)
    /\ Registered(o)
    /\ added_pc[o] = "new"
    /\ added_pc' = [added_pc EXCEPT ![o] = "awaiting"]
    /\ local_last_state' = [local_last_state EXCEPT ![o] = AsyncGetLastState(heap[o])]
    /\ UNCHANGED <<entries, hass_data, heap, setup_state, add_calls, host,
                   write_count, set_count, last_set, nsets>>

AddedToHassResume(o) ==
    /\ o \in 1..Len(heap)
    /\ added_pc[o] = "awaiting"
    /\ heap' = [heap EXCEPT ![o]._value =
                   RestoreValue(local_last_state[o], heap[o]._initial_value)]
    /\ added_pc' = [added_pc EXCEPT ![o] = "added"]
    /\ UNCHANGED <<entries, hass_data, local_last_state, setup_state, add_calls,
                   host, write_count, set_count, last_set, nsets>>

(***************************************************************************)
(* SimpleNumber.async_set_native_value, called on an entity found through  *)
(* hass.data[DOMAIN][entry_id] or through the host's number service.       *)
(***************************************************************************)
Reachable(o) ==
    \E c \in DOMAIN hass_data : \E k \in DOMAIN hass_data[c] : hass_data[c][k] = o

\* Faulty variant: the state is written before self._value is assigned.
AsyncSetNativeValue_WriteFirst(o, value) ==
    /\ o \in 1..Len(heap)
    /\ Reachable(o)
    /\ nsets < MaxSets
    /\ heap' = [heap EXCEPT ![o] = SetValue(heap[o], value)]
    /\ host' = [host EXCEPT ![unique_id(heap[o])].state = Some(StateText(heap[o])),
                            ![unique_id(heap[o])].state_arg = Some(value)]
    /\ write_count' = [write_count EXCEPT ![o] = @ + 1]
    /\ set_count' = [set_count EXCEPT ![o] = @ + 1]
    /\ last_set' = [last_set EXCEPT ![o] = Some(value)]
    /\ nsets' = nsets + 1
    /\ UNCHANGED <<entries, hass_data, added_pc, local_last_state, setup_state,
                   add_calls>>

AsyncSetNativeValue(o, value) ==
    /\ o \in 1..Len(heap)
    /\ Reachable(o)
    /\ nsets < MaxSets
    /\ LET ent == SetValue(heap[o], value)
       IN  /\ heap' = [heap EXCEPT ![o] = ent]
           /\ host' = [host EXCEPT ![unique_id(ent)].state = Some(StateText(ent)),
                                   ![unique_id(ent)].state_arg = Some(value)]
    /\ write_count' = [write_count EXCEPT ![o] = @ + 1]
    /\ set_count' = [set_count EXCEPT ![o] = @ + 1]
    /\ last_set' = [last_set EXCEPT ![o] = Some(value)]
    /\ nsets' = nsets + 1
    /\ UNCHANGED <<entries, hass_data, added_pc, local_last_state, setup_state,
                   add_calls>>

(***************************************************************************)
(* The host stops and starts again: the states it holds become the stored  *)
(* last states, every object of the run is gone.                           *)
(***************************************************************************)
Restart ==
    /\ host' =
         [u \in DOMAIN host |->
            IF host[u].state # None
            THEN HostRecord(StateOf(host[u].state), None, None, host[u].state_arg)
            ELSE HostRecord(host[u].stored, None, None, None)]
    /\ hass_data' = EmptyMap
    /\ heap' = <<>>
    /\ added_pc' = <<>>
    /\ local_last_state' = <<>>
    /\ write_count' = <<>>
    /\ set_count' = <<>>
    /\ last_set' = <<>>
    /\ add_calls' = <<>>
    /\ setup_state' = [c \in DOMAIN entries |-> "none"]
    /\ nsets' = 0
    /\ UNCHANGED entries

(***************************************************************************)
(* Specifications                                                          *)
(***************************************************************************)
EntryIds == {"entry1", "entry2"}
ConfigEntry(entry_id, data_name, options_name) ==
    [entry_id |-> entry_id, data_name |-> data_name, options_name |-> options_name]

UniqueIds(es) ==
    UNION { { unique_id(OverrideBrightnessNumber(es[c])),
              unique_id(OverrideColorTempNumber(es[c])) } : c \in DOMAIN es }

InitRun ==
    /\ hass_data = EmptyMap
    /\ heap = <<>>
    /\ added_pc = <<>>
    /\ local_last_state = <<>>
    /\ write_count = <<>>
    /\ set_count = <<>>
    /\ last_set = <<>>
    /\ add_calls = <<>>
    /\ setup_state = [c \in DOMAIN entries |-> "none"]
    /\ nsets = 0

\* One config entry; the restore storage holds anything an earlier run or
\* an earlier version may have left.
Init ==
    /\ entries = [c \in {"entry1"} |-> ConfigEntry(c, Some(NameLr), None)]
    /\ \E stored \in [UniqueIds(entries) -> StoredStates] :
          host = [u \in UniqueIds(entries) |-> HostRecord(stored[u], None, None, None)]
    /\ InitRun

\* Two config entries with any names; a first start, nothing stored.
InitEntries ==
    /\ \E d1 \in NameOptions, o1 \in NameOptions, d2 \in NameOptions, o2 \in NameOptions :
          entries = [c \in EntryIds |->
                        IF c = "entry1" THEN ConfigEntry(c, d1, o1)
                        ELSE ConfigEntry(c, d2, o2)]
    /\ host = [u \in UniqueIds(entries) |-> HostRecord(None, None, None, None)]
    /\ InitRun

Next ==
    \/ \E c \in EntryIds : IntegrationSetup(c)
    \/ \E c \in EntryIds : AsyncSetupEntry(c)
    \/ \E o \in 1..Len(heap) : AddedToHassAwait(o)
    \/ \E o \in 1..Len(heap) : AddedToHassResume(o)
    \/ \E o \in 1..Len(heap) : \E value \in SetValues(heap[o]) : AsyncSetNativeValue(o, value)
    \/ Restart

\* The set-up of the platform alone, for what construction decides.
NextEntries ==
    \/ \E c \in EntryIds : IntegrationSetup(c)
    \/ \E c \in EntryIds : AsyncSetupEntry(c)

Spec == Init /\ [][Next]_vars
SpecEntries == InitEntries /\ [][NextEntries]_vars

(***************************************************************************)
(* Properties                                                              *)
(***************************************************************************)
Objects == 1..Len(heap)
Text425 == <<"4", "2", ".", "5">>
TextAbc == <<"a", "b", "c">>

\* The step in which the async_added_to_hass of object o completes.
Completes(o) ==
    /\ o <= Len(added_pc')
    /\ added_pc[o] = "awaiting"
    /\ added_pc'[o] = "added"

\* The step in which async_set_native_value is called on object o.
SetCalled(o) ==
    /\ o <= Len(set_count')
    /\ set_count'[o] = set_count[o] + 1

\* The stored last state of object o is a state whose text parses as a number.
UsableLastState(o) ==
    LET ls == last_states[unique_id(heap[o])]
    IN  /\ ls # None
        /\ Val(ls).state # None
        /\ Val(Val(ls).state) # StrUnknown
        /\ Val(Val(ls).state) # StrUnavailable
        /\ ParseFloat(Val(Val(ls).state)) # None

\* C1: when async_added_to_hass completes, the value is the number parsed
\* from the stored last state if there is one, its state is none of None,
\* "unknown", "unavailable" and it parses; in every other case the value is
\* the initial_value the entity was constructed with.
C1_RestoreOrDefault ==
    [][\A o \in Objects :
          Completes(o) =>
             IF UsableLastState(o)
             THEN heap'[o]._value =
                     ParseFloat(Val(Val(last_states[unique_id(heap[o])]).state))
             ELSE heap'[o]._value = Some(heap[o]._initial_value)]_vars

\* C1 witness: one entity restored 42.5 from "42.5", the other fell back to
\* its initial value on "abc".
C1_Witness ==
    /\ Len(heap) = 2
    /\ added_pc = <<"added", "added">>
    /\ set_count = <<0, 0>>
    /\ last_states[unique_id(heap[1])] = StateOf(Some(Text425))
    /\ heap[1]._value = Some(Fin(425))
    /\ heap[1]._value # Some(heap[1]._initial_value)
    /\ last_states[unique_id(heap[2])] = StateOf(Some(TextAbc))
    /\ heap[2]._value = Some(heap[2]._initial_value)

\* C2: every call async_set_native_value(v) makes native_value equal to v and
\* writes the entity state to the host exactly once, and the state written
\* carries v, never the previous value.
C2_SetThenWrite ==
    [][\A o \in Objects :
          SetCalled(o) =>
             /\ last_set'[o] # None
             /\ native_value(heap'[o]) = last_set'[o]
             /\ write_count'[o] = write_count[o] + 1
             /\ host_state'[unique_id(heap[o])] = Some(FormatFloat(Val(last_set'[o])))]_vars

\* C2 witness: an entity set twice, to 42.5 and then to 7.0; the host holds
\* "7.0" and has been written twice.
C2_Witness ==
    \E o \in Objects :
        /\ set_count[o] = 2
        /\ write_count[o] = 2
        /\ last_set[o] = Some(Fin(70))
        /\ native_value(heap[o]) = Some(Fin(70))
        /\ host_state[unique_id(heap[o])] = Some(<<"7", ".", "0">>)

CallsFor(c) == {i \in 1..Len(add_calls) : add_calls[i].entry_id = c}

\* C3: a successful async_setup_entry calls the add-entities callback exactly
\* once, with exactly two entities: override brightness (min 1, max 100,
\* step 1, unit "%", initial DEFAULT_OVERRIDE_BRIGHTNESS), then override color
\* temperature (min 2000, max 6500, step 100, unit "K", initial
\* DEFAULT_OVERRIDE_COLOR_TEMP), with update_before_add true.
C3_SetupAddsTwoEntities ==
    \A c \in DOMAIN entries :
        setup_state[c] = "done" =>
            /\ Cardinality(CallsFor(c)) = 1
            /\ \A i \in CallsFor(c) :
                  LET call == add_calls[i]
                  IN  /\ Len(call.entities) = 2
                      /\ call.update_before_add = TRUE
                      /\ call.entities[1] # call.entities[2]
                      /\ call.entities[1] \in Objects
                      /\ call.entities[2] \in Objects
                      /\ LET b == heap[call.entities[1]]
                             t == heap[call.entities[2]]
                         IN  /\ b._which = WhichBrightness
                             /\ b.native_min_value = FloatOf(1)
                             /\ b.native_max_value = FloatOf(100)
                             /\ b.native_step = FloatOf(1)
                             /\ b.native_unit_of_measurement = "%"
                             /\ b._initial_value = FloatOf(DEFAULT_OVERRIDE_BRIGHTNESS)
                             /\ t._which = WhichColorTemp
                             /\ t.native_min_value = FloatOf(2000)
                             /\ t.native_max_value = FloatOf(6500)
                             /\ t.native_step = FloatOf(100)
                             /\ t.native_unit_of_measurement = "K"
                             /\ t._initial_value = FloatOf(DEFAULT_OVERRIDE_COLOR_TEMP)

\* C3 witness: async_setup_entry has succeeded for two config entries, each
\* with its own call of the callback and its own two entities.
C3_Witness ==
    /\ setup_state["entry1"] = "done"
    /\ setup_state["entry2"] = "done"
    /\ Cardinality(CallsFor("entry1")) = 1
    /\ Cardinality(CallsFor("entry2")) = 1
    /\ Len(heap) = 4

\* The restore storage of object o came from async_set_native_value(v).
StoredBySet(o, v) == written_by_set[unique_id(heap[o])] = Some(v)

\* C4: if the last state the host wrote for an entity came from
\* async_set_native_value(v), a freshly constructed entity of the same config
\* entry has native_value v once its async_added_to_hass completes, whatever
\* its initial_value is.
C4_ValueSurvivesRestart ==
    [][\A o \in Objects : \A v \in SetCandidates :
          (Completes(o) /\ StoredBySet(o, v)) => native_value(heap'[o]) = Some(v)]_vars

\* C4 witness: after a restart an entity whose stored state came from
\* async_set_native_value(42.5) has been added and holds 42.5, not its
\* initial value.
C4_Witness ==
    \E o \in Objects :
        /\ added_pc[o] = "added"
        /\ set_count[o] = 0
        /\ StoredBySet(o, Fin(425))
        /\ last_states[unique_id(heap[o])] = StateOf(Some(Text425))
        /\ native_value(heap[o]) = Some(Fin(425))
        /\ heap[o]._initial_value # Fin(425)

\* C5: async_setup_entry has stored the two entities in
\* hass.data[DOMAIN][entry_id], under OVERRIDE_BRIGHTNESS_NUMBER and
\* OVERRIDE_COLOR_TEMP_NUMBER, by the time it calls the add-entities callback,
\* and the objects stored are the objects passed to the callback: what is read
\* through hass.data is the registered entity.
C5_StoredBeforeAdded ==
    \A i \in 1..Len(add_calls) :
        LET call == add_calls[i]
        IN  /\ OVERRIDE_BRIGHTNESS_NUMBER \in DOMAIN call.data_at_call
            /\ OVERRIDE_COLOR_TEMP_NUMBER \in DOMAIN call.data_at_call
            /\ call.data_at_call[OVERRIDE_BRIGHTNESS_NUMBER] = call.entities[1]
            /\ call.data_at_call[OVERRIDE_COLOR_TEMP_NUMBER] = call.entities[2]
            /\ call.entry_id \in DOMAIN hass_data
            /\ hass_data[call.entry_id] = call.data_at_call

\* C5 witness: a value set on the second registered entity is read through
\* hass.data.
C5_Witness ==
    \E i \in 1..Len(add_calls) :
        LET call == add_calls[i]
            o == call.entities[2]
        IN  /\ set_count[o] = 1
            /\ added_pc[o] = "added"
            /\ last_set[o] = Some(Fin(65000))
            /\ native_value(heap[hass_data[call.entry_id][OVERRIDE_COLOR_TEMP_NUMBER]])
                  = Some(Fin(65000))

\* C6: native_value is None from construction until async_added_to_hass
\* completes or async_set_native_value is called, and once
\* async_added_to_hass has completed it is never None again, whatever
\* async_set_native_value calls follow.
C6_NoneUntilAddedOrSet ==
    \A o \in Objects :
        /\ (added_pc[o] # "added" /\ set_count[o] = 0) => native_value(heap[o]) = None
        /\ added_pc[o] = "added" => native_value(heap[o]) # None

\* C6 witness: one entity still awaits its last state and has no value, the
\* other has been added and then set.
C6_Witness ==
    \E o \in Objects : \E q \in Objects :
        /\ added_pc[o] = "awaiting"
        /\ set_count[o] = 0
        /\ native_value(heap[o]) = None
        /\ added_pc[q] = "added"
        /\ set_count[q] = 2
        /\ native_value(heap[q]) # None

\* C7: the two entities of one async_setup_entry have different unique_ids
\* (config name, "_", slug of the entity's kind) and the same device identifier
\* (DOMAIN, config name), the config name being the CONF_NAME of the entry's
\* data when present and non-empty and otherwise that of its options; and the
\* entities of two config entries have different unique_ids whenever their
\* config names differ.
C7_UniqueIds ==
    /\ \A i \in 1..Len(add_calls) :
          LET call == add_calls[i]
              cfg == entries[call.entry_id]
              name == IF cfg.data_name # None /\ Val(cfg.data_name) # <<>>
                      THEN cfg.data_name ELSE cfg.options_name
              b == heap[call.entities[1]]
              t == heap[call.entities[2]]
          IN  /\ unique_id(b) # unique_id(t)
              /\ b._config_name = name
              /\ t._config_name = name
              /\ device_info(b).identifiers = {<<DOMAIN_NAME, name>>}
              /\ device_info(t).identifiers = device_info(b).identifiers
    /\ \A o \in Objects : \A q \in Objects :
          heap[o]._config_name # heap[q]._config_name
             => unique_id(heap[o]) # unique_id(heap[q])

InRange(ent) ==
    /\ FLe(ent.native_min_value, Val(native_value(ent)))
    /\ FLe(Val(native_value(ent)), ent.native_max_value)

\* C8: after any sequence of async_added_to_hass and async_set_native_value
\* calls a non-None native_value lies within [native_min_value,
\* native_max_value].
C8_ValueWithinBounds ==
    \A o \in Objects : native_value(heap[o]) # None => InRange(heap[o])

\* C9: once async_added_to_hass and the async_set_native_value calls of a run
\* have finished, in whatever order they ran, the value is the one given to
\* the last async_set_native_value call.
C9_SetNotReplacedByRestore ==
    \A o \in Objects :
        (added_pc[o] = "added" /\ set_count[o] > 0) => native_value(heap[o]) = last_set[o]
====
